---- MODULE Spec2Model ----
(***************************************************************************)
(* State-machine model of the budget dashboard component BudgetDashboard   *)
(* (src/src/App.jsx): the three stores (ledger `data`, custom templates    *)
(* `userTemplates`, `settings`), the selected month, the drill-down modal, *)
(* the undo snackbar with its expiry timers, backup download / import and  *)
(* the resets.                                                             *)
(*                                                                         *)
(* Representation                                                          *)
(*  - a JavaScript string typed by the user or used as a category name is  *)
(*    a sequence of segments; the segment " " is a run of white space, any *)
(*    other segment is a run of text without leading/trailing white space. *)
(*    "" is << >>.                                                         *)
(*  - a month key "YYYY-MM" is the pair <<year, month>>, month in 1..12;   *)
(*    string comparison of two keys with four-digit years is the           *)
(*    lexicographic comparison of the pairs.                               *)
(*  - a JavaScript number is the record [nan |-> BOOLEAN, val |-> Int].    *)
(*    Amounts stored in the ledger are plain integers (the code never      *)
(*    stores NaN, see updateAmount / addItem).                             *)
(*  - a JavaScript object used as a map is a function on its set of keys.  *)
(***************************************************************************)
EXTENDS Integers, Sequences, FiniteSets, TLC

VARIABLES
    data,           \* ledger store            useState, App.jsx:72
    userTemplates,  \* custom template store   useState, App.jsx:49
    settings,       \* settings store          useState, App.jsx:63
    selectedMonth,  \* selected month key      useState, App.jsx:79
    breakdown,      \* drill-down modal        useState, App.jsx:200
    snackbar,       \* pending-undo slot       useState, App.jsx:155 (<< >> is null)
    timers,         \* pending setTimeout callbacks of showUndo, App.jsx:158
    effectPending,  \* the ensure-selected-month effect is scheduled (deps changed)
    file,           \* the last file written by downloadBackup
    alerted,        \* the last import raised the failure notice
    ops,            \* number of user actions so far (bounded)
    act,            \* history: the last step taken and its arguments
    lastMut,        \* history: the most recent add / edit / delete
    reading,        \* files whose file.text() has not resolved yet, App.jsx:342
    importLog,      \* history: the imports requested and completed, in order
    fyRef, fyStart, fyKeys, \* inputs and result of fiscalYearKeysFor (SpecFY)
    stored,         \* the blobs found in localStorage at start-up (SpecStart)
    crashed         \* the first render threw: the component is not mounted

vars == <<data, userTemplates, settings, selectedMonth, breakdown, snackbar,
          timers, effectPending, file, alerted, ops, act, lastMut, reading,
          importLog, fyRef, fyStart, fyKeys, stored, crashed>>

(***************************************************************************)
(* Bounds of the model                                                     *)
(***************************************************************************)
MaxOps == 3          \* user actions per behaviour
MaxShift == 1        \* months the selection may move away from NowKey
TickMs == 2500       \* granularity of the clock, in ms
FyYears == 2         \* SpecFY: reference years 2023 .. 2023 + FyYears

UNDO_MS == 5000      \* setTimeout(..., 5000): the 5 time units of the undo slot

(***************************************************************************)
(* Strings                                                                 *)
(***************************************************************************)
WS == " "

\* String.prototype.trim
RECURSIVE TrimLeft(_)
TrimLeft(s) == IF s = << >> THEN << >>
               ELSE IF Head(s) = WS THEN TrimLeft(Tail(s)) ELSE s
RECURSIVE TrimRight(_)
TrimRight(s) == IF s = << >> THEN << >>
                ELSE IF s[Len(s)] = WS THEN TrimRight(SubSeq(s, 1, Len(s) - 1)) ELSE s
trim(s) == TrimRight(TrimLeft(s))

\* truthiness of a string: only "" is falsy
Truthy(s) == s # << >>

Range(q) == {q[i] : i \in 1..Len(q)}

\* Array.from(new Set(q)): first occurrences, in order
RECURSIVE DedupFrom(_, _)
DedupFrom(q, seen) ==
    IF q = << >> THEN << >>
    ELSE IF Head(q) \in seen THEN DedupFrom(Tail(q), seen)
         ELSE <<Head(q)>> \o DedupFrom(Tail(q), seen \cup {Head(q)})
ArrayFromSet(q) == DedupFrom(q, {})

(***************************************************************************)
(* Numbers                                                                 *)
(***************************************************************************)
Num(n) == [nan |-> FALSE, val |-> n]
NaN == [nan |-> TRUE, val |-> 0]

\* Number(text) for the text of an <input type="number"> (App.jsx:170, 489):
\* "" converts to 0, a decimal literal to its value, anything else to NaN.
NumberOf(text) ==
    IF text = "" THEN Num(0)
    ELSE IF text = "200" THEN Num(200)
    ELSE IF text = "1200" THEN Num(1200)
    ELSE IF text = "-50" THEN Num(-50)
    ELSE NaN

IsFinite(x) == ~x.nan
\* (Number(x) || 0)
OrZero(x) == IF x.nan THEN 0 ELSE x.val

(***************************************************************************)
(* Templates and month records                                             *)
(***************************************************************************)
Buckets == {"income", "saving", "investment", "expense"}

BASE_TEMPLATES ==
    [income     |-> << <<"Salary">>, <<"Cash">>, <<"Music">>, <<"Fitness">>,
                       <<"Carry Over">> >>,
     saving     |-> << <<"Saving Blanket">>, <<"Cash">>, <<"Current">> >>,
     investment |-> << <<"Apt Valuation">>, <<"Bitcoin">>, <<"Stocks">>,
                       <<"Pension Valuation">> >>,
     expense    |-> << <<"Mortgage">>, <<"Jiujitsu">>, <<"CrossFit">>,
                       <<"Food Shop">>, <<"Leisure/Concert">>,
                       <<"Company car (N/A)">>, <<"TV/Mobile/Apps">>,
                       <<"Supplements">>, <<"BONGO Dog">>, <<"Electricity">>,
                       <<"Other">>, <<"Takeaway">> >>]

NoTemplates == [b \in Buckets |-> << >>]

\* useMemo TEMPLATES: built-in names followed by the custom names
TEMPLATES(ut) == [b \in Buckets |-> BASE_TEMPLATES[b] \o ut[b]]

\* Object.fromEntries(list.map(c => [c, 0]))
ZeroFill(list) == [c \in Range(list) |-> 0]

\* mutant of emptyMonth: only the built-in names are zero-filled
emptyMonthBuiltInOnly(templates) == [b \in Buckets |-> ZeroFill(BASE_TEMPLATES[b])]

emptyMonth(templates) == [b \in Buckets |-> ZeroFill(templates[b])]

\* { ...a, ...b }
Spread(a, b) == [k \in (DOMAIN a) \cup (DOMAIN b) |->
                    IF k \in DOMAIN b THEN b[k] ELSE a[k]]

\* obj[key] = value on a copy of obj
Put(obj, key, value) == [k \in (DOMAIN obj) \cup {key} |->
                            IF k = key THEN value ELSE obj[k]]

\* Number(obj?.[key] || 0)
Get(obj, key) == IF key \in DOMAIN obj THEN obj[key] ELSE 0

\* sum(obj): Object.values(obj).reduce((a, b) => a + Number(b), 0)
RECURSIVE SumOver(_, _)
SumOver(obj, keys) ==
    IF keys = {} THEN 0
    ELSE LET k == CHOOSE x \in keys : TRUE
         IN obj[k] + SumOver(obj, keys \ {k})
sum(obj) == SumOver(obj, DOMAIN obj)

cashFlow(month) == sum(month.income) - sum(month.expense)
netWorthValue(month) == sum(month.saving) + sum(month.investment)

(***************************************************************************)
(* Month keys and dates                                                    *)
(***************************************************************************)
\* new Date(year, monthIndex, 1) followed by getFullYear() / getMonth() + 1:
\* a year argument 0..99 means 1900 + year; the month index overflows into
\* the year.
DateKey(year, monthIndex) ==
    LET y == IF year >= 0 /\ year <= 99 THEN 1900 + year ELSE year
    IN <<y + (monthIndex \div 12), (monthIndex % 12) + 1>>

\* string comparison a < b of two month keys
KeyLt(a, b) == a[1] < b[1] \/ (a[1] = b[1] /\ a[2] < b[2])

\* Object.keys(months).sort()
RECURSIVE SortKeys(_)
SortKeys(keys) ==
    IF keys = {} THEN << >>
    ELSE LET lo == CHOOSE k \in keys : \A j \in keys : j = k \/ KeyLt(k, j)
         IN <<lo>> \o SortKeys(keys \ {lo})

\* "today" for createInitialData: December 2024, so that shifting the
\* selection crosses a year boundary
NowKey == <<2024, 12>>

createInitialData(templates) == [months |-> (NowKey :> emptyMonth(templates))]


\* const prevKey = keys.filter((k) => k < selectedMonth).pop()  (App.jsx:86-87)
\* << >> stands for undefined
prevKeyOf(months, sel) ==
    LET keys == SortKeys(DOMAIN months)
        earlier == SelectSeq(keys, LAMBDA k : KeyLt(k, sel))
    IN IF earlier = << >> THEN << >> ELSE <<earlier[Len(earlier)]>>

\* mutant of ensureMonthRecord: the balances are not carried forward
ensureMonthRecordNoCarry(months, sel, templates) == emptyMonth(templates)

\* the updater of the ensure-selected-month effect (App.jsx:85-94)
ensureMonthRecord(months, sel, templates) ==
    LET pk == prevKeyOf(months, sel)
        carry == IF pk # << >> THEN months[pk[1]] ELSE emptyMonth(templates)
        nextMonth == emptyMonth(templates)
    IN [nextMonth EXCEPT !.saving = Spread(nextMonth.saving, carry.saving),
                         !.investment = Spread(nextMonth.investment, carry.investment)]

(***************************************************************************)
(* Settings                                                                *)
(***************************************************************************)
DefaultSettings ==
    [currency |-> "EUR", fyStartMonth |-> 1, showMoMColors |-> TRUE,
     compactMode |-> FALSE]

\* fmtCurrency(n): the text depends on the number and on the currency code
fmtCurrency(cur, n) == [cur |-> IF cur = "" THEN "EUR" ELSE cur, num |-> n]

(***************************************************************************)
(* Undo snackbar                                                           *)
(***************************************************************************)
\* the labels built at App.jsx:184, 269, 279
AddedLabel(cur, amt, cat) == [verb |-> "Added", amt |-> fmtCurrency(cur, amt), cat |-> cat]
ChangedLabel(cur, amt, cat) == [verb |-> "Changed", amt |-> fmtCurrency(cur, amt), cat |-> cat]
DeletedLabel(cat) == [verb |-> "Deleted", amt |-> fmtCurrency("", Num(0)), cat |-> cat]

\* What the closure () => updateAmount(cat, val) captured from the render in
\* which it was created: breakdown.bucket, selectedMonth, TEMPLATES and the
\* currency used by fmtCurrency.
Env == [bucket |-> breakdown.bucket, month |-> selectedMonth,
        ut |-> userTemplates, cur |-> settings.currency]

UndoEntry(label, cat, val, env) == [label |-> label, cat |-> cat, val |-> val, env |-> env]

\* setTimeout(() => setSnackbar((s) => (s && s.label === label ? null : s)), 5000)
NewTimer(label) == [label |-> label, rem |-> UNDO_MS]

\* mutant of TimerClears: the timer never clears the slot
TimerNeverClears(slot, label) == FALSE

\* the timer callback applied to the slot
TimerClears(slot, label) == slot # << >> /\ slot[1].label = label

(***************************************************************************)
(* updateAmount                                                            *)
(***************************************************************************)
NullBucket == "null"

\* oldVal (App.jsx:246-248, 275-277)
OldValue(before, bucket, cat) ==
    IF bucket = "saving-invest"
    THEN Get(before.saving, cat) + Get(before.investment, cat)
    ELSE Get(before[bucket], cat)

\* the bucket written for the view bucket (App.jsx:258-265)
TargetBucket(base, bucket, cat, templates) ==
    IF bucket = "saving-invest"
    THEN IF cat \in DOMAIN base.saving THEN "saving"
         ELSE IF cat \in DOMAIN base.investment THEN "investment"
         ELSE IF cat \in Range(templates.saving) THEN "saving"
         ELSE "investment"
    ELSE bucket

\* the setData updater of updateAmount (App.jsx:250-267), run with the
\* selectedMonth and TEMPLATES of the closure `env` on the current ledger
UpdatedData(prev, env, cat, newAmtNum) ==
    LET templates == TEMPLATES(env.ut)
        base == IF env.month \in DOMAIN prev.months
                THEN prev.months[env.month] ELSE emptyMonth(templates)
        k == TargetBucket(base, env.bucket, cat, templates)
        m == [base EXCEPT ![k] = Put(base[k], cat, OrZero(newAmtNum))]
    IN [months |-> Put(prev.months, env.month, m)]

\* currentMonthBucket() (App.jsx:221-223)
currentMonthBucket ==
    IF selectedMonth \in DOMAIN data.months
    THEN data.months[selectedMonth] ELSE emptyMonth(TEMPLATES(userTemplates))

(***************************************************************************)
(* Backup files                                                            *)
(***************************************************************************)
\* A file is malformed text, or the JSON text of null, or the JSON text of
\* an object; each of the keys data / templates / settings of the object is
\* absent, null, or holds a value.  JSON.stringify followed by JSON.parse is
\* the identity on the values the stores hold (maps of finite numbers,
\* arrays of strings, strings, booleans).
Field(tag, val) == [tag |-> tag, val |-> val]
FieldTruthy(f) == f.tag = "value"
FieldPresent(f) == f.tag # "absent"

EmptyLedger == [months |-> << >>]

\* `payload` records the stores a file of downloadBackup was made from
NoPayload == [data |-> EmptyLedger, templates |-> NoTemplates, settings |-> DefaultSettings]
JsonFile(d, t, s) == [kind |-> "object", data |-> d, templates |-> t, settings |-> s,
                      payload |-> NoPayload]
GarbageFile == [kind |-> "garbage", data |-> Field("absent", EmptyLedger),
                templates |-> Field("absent", NoTemplates),
                settings |-> Field("absent", DefaultSettings),
                payload |-> NoPayload]
NullFile == [GarbageFile EXCEPT !.kind = "null"]
NoFile == [GarbageFile EXCEPT !.kind = "none"]

\* mutant of serializeBackup: the templates are left out of the payload
serializeBackupNoTemplates(d, ut, s) ==
    JsonFile(Field("value", d), Field("absent", NoTemplates), Field("value", s))

\* JSON.stringify({ data, templates: userTemplates, settings }) (App.jsx:330-331)
serializeBackup(d, ut, s) ==
    JsonFile(Field("value", d), Field("value", ut), Field("value", s))

\* JSON.parse(text) succeeds
Parses(f) == f.kind \in {"object", "null"}
\* the try block of importBackup completes without throwing: reading a
\* property of null throws a TypeError
ImportSucceeds(f) == f.kind = "object"


(***************************************************************************)
(* Inputs of the model                                                     *)
(***************************************************************************)
\* category names the user picks in the adder's select
FocusCats == { <<"Cash">>, <<"Mortgage">>, <<"Bitcoin">>, <<"X">> }
\* the adder form when Save is clicked: the selected category (one of
\* `options`, or "" when none is selected), the text of the "Other (custom
\* name)" field, the text of the amount field and the "remember" checkbox
Form(newCat, newOther, newAmt, remember) ==
    [newCat |-> newCat, newOther |-> newOther, newAmt |-> newAmt, remember |-> remember]
AddForms(options) ==
    {Form(c, << >>, a, TRUE) : c \in options, a \in {"200", "abc", ""}}
    \cup {Form(c, <<WS>>, "200", r) : c \in options, r \in BOOLEAN}
    \cup {Form(<< >>, o, "200", TRUE) : o \in {<< >>, <<WS>>}}
    \cup {Form(<< >>, <<WS, "X">>, "200", r) : r \in BOOLEAN}
\* text of the amount field of a row being edited
\* ("" is what a number input reports for text that is not a number)
EditInputs == { "", "abc", "1200" }
CurrencyInputs == { "EUR", "USD" }
FyStartInputs == { 1, 4 }
Titles == { "Expenses / Costs", "Saving / Investments", "Income", "Net Worth" }

BaseMonth == emptyMonth(TEMPLATES(NoTemplates))

\* ledgers, templates and settings found in the backup files the user imports
OldKey == <<2024, 11>>
Ledger1 ==
    [months |-> (OldKey :>
        [BaseMonth EXCEPT !.saving = Put(BaseMonth.saving, <<"Cash">>, 500),
                          !.expense = Put(BaseMonth.expense, <<"Mortgage">>, 100)])]
Templates1 == [NoTemplates EXCEPT !.investment = << <<"Cash">> >>]
Settings1 == [DefaultSettings EXCEPT !.currency = "USD", !.fyStartMonth = 4]

ForeignFiles ==
    { GarbageFile,
      NullFile,
      JsonFile(Field("value", Ledger1), Field("absent", NoTemplates),
               Field("absent", DefaultSettings)),
      JsonFile(Field("null", EmptyLedger), Field("value", Templates1),
               Field("absent", DefaultSettings)),
      JsonFile(Field("absent", EmptyLedger), Field("null", NoTemplates),
               Field("value", Settings1)) }

\* months the selection may reach
MonthIndex(k) == k[1] * 12 + (k[2] - 1)
InWindow(k) == MonthIndex(k) - MonthIndex(NowKey) \in (0 - MaxShift)..MaxShift

(***************************************************************************)
(* History                                                                 *)
(***************************************************************************)
\* `ok`: the handler took effect (it did not return early); `valid`: the
\* form it read held a category and a numeric amount; `restored`: the step
\* completed the import of the file written by downloadBackup, or is the
\* effect that follows that import
Step(name, ok) == [name |-> name, ok |-> ok, valid |-> TRUE, restored |-> FALSE]

\* what the number inputs of the adder and of the edit row (App.jsx:450,
\* 480-488) hold when the user entered a number, and a category was chosen
ValidInput(cat, amtText) ==
    Truthy(cat) /\ amtText # "" /\ IsFinite(NumberOf(amtText))

\* the most recent mutation: the operation, the view bucket of the render
\* (breakdown.bucket), the bucket written, the month and category, the amount
\* entered, the prior value the handler captured for its undo, the month
\* record before the mutation and whether it existed, the time since the
\* mutation, whether the ledger was replaced since (import, reset) and
\* whether Undo was clicked since, and whether the mutation repeats the one
\* before it (same operation, view, month and category, nothing but time
\* between the two)
NoMut == [op |-> "none", view |-> NullBucket, target |-> "income",
          month |-> NowKey, cat |-> << >>, amt |-> Num(0), prevVal |-> 0,
          before |-> BaseMonth, existed |-> FALSE, age |-> 0, intact |-> FALSE,
          undone |-> FALSE, repeat |-> FALSE]

Mut(op, view, target, month, cat, amt, prevVal, before, existed) ==
    [op |-> op, view |-> view, target |-> target, month |-> month, cat |-> cat,
     amt |-> amt, prevVal |-> prevVal, before |-> before, existed |-> existed,
     age |-> 0, intact |-> TRUE, undone |-> FALSE,
     repeat |-> (/\ lastMut.op = op /\ lastMut.cat = cat /\ lastMut.month = month
                 /\ lastMut.view = view /\ lastMut.intact /\ ~lastMut.undone)]

(***************************************************************************)
(* Persisted blobs                                                         *)
(***************************************************************************)
\* what localStorage.getItem returns for a key: nothing (null), text that is
\* not JSON, the text "null", the text "{}", or the text of a store
BlobKinds == {"absent", "garbage", "null", "empty", "valid"}
Blob(kind, val) == [kind |-> kind, val |-> val]
Blobs(val, default) ==
    {Blob(k, default) : k \in BlobKinds \ {"valid"}} \cup {Blob("valid", val)}
NothingStored ==
    [templates |-> Blob("absent", NoTemplates), settings |-> Blob("absent", DefaultSettings),
     data |-> Blob("absent", EmptyLedger)]

\* try { const raw = getItem(k); if (raw) return JSON.parse(raw); } catch {}
\* return default   (App.jsx:50-51, 73-74): the value parsed, whatever it
\* is; tag "null" is the value null, tag "empty" the object {}
LoadIfRaw(blob, default) ==
    IF blob.kind \in {"absent", "garbage"} THEN Field("value", default)
    ELSE IF blob.kind = "valid" THEN Field("value", blob.val)
    ELSE Field(blob.kind, default)

\* try { return JSON.parse(getItem(k)) || default; } catch {} return default
\* (App.jsx:64-65): JSON.parse(null) is null
LoadOrDefault(blob, default) ==
    IF blob.kind \in {"absent", "garbage", "null"} THEN Field("value", default)
    ELSE IF blob.kind = "valid" THEN Field("value", blob.val)
    ELSE Field("empty", default)

\* the settings object {}: every field reads as undefined, which the code
\* only tests for truthiness (settings.currency || "EUR", fyStartMonth || 1)
EmptyObjectSettings ==
    [currency |-> "", fyStartMonth |-> 0, showMoMColors |-> FALSE, compactMode |-> FALSE]

(***************************************************************************)
(* Initial state: first start, nothing persisted, mount effects run        *)
(***************************************************************************)
ClosedBreakdown == [open |-> FALSE, bucket |-> NullBucket, items |-> {}]

Init ==
    /\ userTemplates = NoTemplates
    /\ settings = DefaultSettings
    /\ data = createInitialData(TEMPLATES(NoTemplates))
    /\ selectedMonth = NowKey
    /\ breakdown = ClosedBreakdown
    /\ snackbar = << >>
    /\ timers = {}
    /\ effectPending = FALSE
    /\ file = NoFile
    /\ alerted = FALSE
    /\ reading = {}
    /\ importLog = << >>
    /\ ops = 0
    /\ act = Step("init", TRUE)
    /\ lastMut = NoMut
    /\ fyRef = NowKey /\ fyStart = 1 /\ fyKeys = << >>
    /\ stored = NothingStored /\ crashed = FALSE

\* the variables of the fiscal-year and start-up specifications
fyVars == <<fyRef, fyStart, fyKeys, stored, crashed>>

\* a user event is handled only when no effect is scheduled: React runs the
\* effects of a render before it handles the next event
UserInput(name, ok, valid) ==
    /\ ~effectPending
    /\ ops < MaxOps
    /\ ops' = ops + 1
    /\ act' = [Step(name, ok) EXCEPT !.valid = valid]
    /\ UNCHANGED fyVars

UserStep(name, ok) == UserInput(name, ok, TRUE)

(***************************************************************************)
(* Month selection                                                         *)
(***************************************************************************)
\* shiftMonth(delta) (App.jsx:97-102), the buttons of App.jsx:391, 395
shiftMonth(delta) ==
    LET key == DateKey(selectedMonth[1], (selectedMonth[2] - 1) + delta)
    IN /\ InWindow(key)
       /\ UserStep("shiftMonth", TRUE)
       /\ selectedMonth' = key
       /\ effectPending' = TRUE
       /\ UNCHANGED <<data, userTemplates, settings, breakdown, snackbar, timers,
                      file, alerted, reading, importLog, lastMut>>

\* the month <select> (App.jsx:392-394): one option per month of the ledger
selectMonth(m) ==
    /\ m \in DOMAIN data.months
    /\ m # selectedMonth
    /\ UserStep("selectMonth", TRUE)
    /\ selectedMonth' = m
    /\ effectPending' = TRUE
    /\ UNCHANGED <<data, userTemplates, settings, breakdown, snackbar, timers,
                   file, alerted, reading, importLog, lastMut>>

\* the effect of App.jsx:83-95; it runs after a render in which selectedMonth
\* or TEMPLATES changed
ensureSelectedMonth ==
    /\ effectPending
    /\ effectPending' = FALSE
    /\ IF selectedMonth \in DOMAIN data.months
       THEN /\ data' = data
            /\ act' = [Step("ensure", FALSE) EXCEPT !.restored = act.restored]
       ELSE /\ data' = [months |-> Put(data.months, selectedMonth,
                           ensureMonthRecord(data.months, selectedMonth,
                                             TEMPLATES(userTemplates)))]
            /\ act' = [Step("ensure", TRUE) EXCEPT !.restored = act.restored]
    /\ UNCHANGED <<userTemplates, settings, selectedMonth, breakdown, snackbar,
                   timers, file, alerted, reading, importLog, ops, lastMut>>
    /\ UNCHANGED fyVars


(***************************************************************************)
(* Adding an entry                                                         *)
(***************************************************************************)
\* const catToUse = (newOther && newOther.trim()) ? newOther.trim() : newCat
catToUseOf(newCat, newOther) ==
    IF Truthy(newOther) /\ Truthy(trim(newOther)) THEN trim(newOther) ELSE newCat

\* if (!kind || !catToUse || !Number.isFinite(amt)) return   (App.jsx:172)
addItemAccepts(catToUse, amt) == Truthy(catToUse) /\ IsFinite(amt)

\* the setData updater of addItem (App.jsx:176-183)
AddedData(prev, sel, templates, kind, catToUse, amt) ==
    LET base == IF sel \in DOMAIN prev.months
                THEN prev.months[sel] ELSE emptyMonth(templates)
        m == [base EXCEPT ![kind] = Put(base[kind], catToUse,
                                        Get(base[kind], catToUse) + amt.val)]
    IN [months |-> Put(prev.months, sel, m)]

\* if (newOther && rememberSubheading) setUserTemplates(...)  (App.jsx:186-191)
remembers(newOther, rememberSubheading) == Truthy(newOther) /\ rememberSubheading

RememberedTemplates(prev, kind, newOther) ==
    [prev EXCEPT ![kind] = ArrayFromSet(prev[kind] \o <<trim(newOther)>>)]

\* addItem(kind) with the form fields newCat, newOther, newAmt and the
\* "remember" checkbox (App.jsx:169-197)
addItem(kind, newCat, newOther, newAmt, rememberSubheading) ==
    LET amt == NumberOf(newAmt)
        catToUse == catToUseOf(newCat, newOther)
        templates == TEMPLATES(userTemplates)
        prevMonth == currentMonthBucket
        prevVal == Get(prevMonth[kind], catToUse)
        label == AddedLabel(settings.currency, amt, catToUse)
    IN /\ IF ~addItemAccepts(catToUse, amt)
          THEN /\ UserInput("addItem", FALSE, ValidInput(catToUse, newAmt))
               /\ UNCHANGED <<data, userTemplates, snackbar, timers, effectPending,
                              lastMut>>
          ELSE /\ UserInput("addItem", TRUE, ValidInput(catToUse, newAmt))
               /\ data' = AddedData(data, selectedMonth, templates, kind, catToUse, amt)
               /\ snackbar' = <<UndoEntry(label, catToUse, prevVal, Env)>>
               /\ timers' = timers \cup {NewTimer(label)}
               /\ lastMut' = Mut("add", breakdown.bucket, kind, selectedMonth, catToUse,
                                 amt, prevVal, prevMonth,
                                 selectedMonth \in DOMAIN data.months)
               /\ IF remembers(newOther, rememberSubheading)
                  THEN /\ userTemplates' = RememberedTemplates(userTemplates, kind, newOther)
                       /\ effectPending' = TRUE
                  ELSE UNCHANGED <<userTemplates, effectPending>>
       /\ UNCHANGED <<settings, selectedMonth, breakdown, file, alerted, reading, importLog>>

(***************************************************************************)
(* Drill-down modal: edit and delete                                       *)
(***************************************************************************)
\* mapTitleToBucket (App.jsx:205-210)
mapTitleToBucket(title) ==
    IF title = "Expenses / Costs" THEN "expense"
    ELSE IF title = "Income" THEN "income"
    ELSE IF title = "Saving / Investments" THEN "saving-invest"
    ELSE NullBucket

\* entriesToChartData (App.jsx:37-41): the names with a non-zero value
NonZero(obj) == {c \in DOMAIN obj : obj[c] # 0}

\* the rows handed to openBreakdown in the Monthly view (App.jsx:137-151, 413-416)
RowsFor(title) ==
    LET agg == IF selectedMonth \in DOMAIN data.months
               THEN data.months[selectedMonth]
               ELSE [b \in Buckets |-> << >>]
    IN IF title = "Expenses / Costs" THEN NonZero(agg.expense)
       ELSE IF title = "Income" THEN NonZero(agg.income)
       ELSE IF title = "Saving / Investments"
            THEN NonZero(agg.saving) \cup NonZero(agg.investment)
       ELSE { <<"Net Worth">> }

\* clicking a chart card (App.jsx:212-219)
openBreakdown(title) ==
    /\ UserStep("openBreakdown", TRUE)
    /\ breakdown' = [open |-> TRUE, bucket |-> mapTitleToBucket(title),
                     items |-> RowsFor(title)]
    /\ UNCHANGED <<data, userTemplates, settings, selectedMonth, snackbar, timers,
                   effectPending, file, alerted, reading, importLog, lastMut>>

\* the modal's close button / backdrop (App.jsx:457, 461)
closeBreakdown ==
    /\ breakdown.open
    /\ UserStep("closeBreakdown", TRUE)
    /\ breakdown' = ClosedBreakdown
    /\ UNCHANGED <<data, userTemplates, settings, selectedMonth, snackbar, timers,
                   effectPending, file, alerted, reading, importLog, lastMut>>

\* the Save button of a row being edited (App.jsx:489):
\* updateAmount(row.name, Number(editValue))  (App.jsx:241-270)
editSave(cat, editValue) ==
    LET newAmtNum == NumberOf(editValue)
        before == currentMonthBucket
        oldVal == OldValue(before, breakdown.bucket, cat)
        label == ChangedLabel(settings.currency, newAmtNum, cat)
    IN /\ breakdown.open
       /\ breakdown.bucket # NullBucket
       /\ cat \in breakdown.items
       /\ UserInput("editSave", TRUE, ValidInput(cat, editValue))
       /\ data' = UpdatedData(data, Env, cat, newAmtNum)
       /\ snackbar' = <<UndoEntry(label, cat, oldVal, Env)>>
       /\ timers' = timers \cup {NewTimer(label)}
       /\ lastMut' = Mut("edit", breakdown.bucket,
                         TargetBucket(before, breakdown.bucket, cat,
                                      TEMPLATES(userTemplates)),
                         selectedMonth, cat, newAmtNum, oldVal, before,
                         selectedMonth \in DOMAIN data.months)
       /\ UNCHANGED <<userTemplates, settings, selectedMonth, breakdown,
                      effectPending, file, alerted, reading, importLog>>

\* the Confirm button of a row being deleted (App.jsx:504):
\* deleteAmount(row.name)  (App.jsx:272-280)
deleteConfirm(cat) ==
    LET before == currentMonthBucket
        oldVal == OldValue(before, breakdown.bucket, cat)
        changed == ChangedLabel(settings.currency, Num(0), cat)
        label == DeletedLabel(cat)
    IN /\ breakdown.open
       /\ breakdown.bucket # NullBucket
       /\ cat \in breakdown.items
       /\ UserStep("deleteConfirm", TRUE)
       /\ data' = UpdatedData(data, Env, cat, Num(0))
       /\ snackbar' = <<UndoEntry(label, cat, oldVal, Env)>>
       /\ timers' = timers \cup {NewTimer(changed), NewTimer(label)}
       /\ lastMut' = Mut("delete", breakdown.bucket,
                         TargetBucket(before, breakdown.bucket, cat,
                                      TEMPLATES(userTemplates)),
                         selectedMonth, cat, Num(0), oldVal, before,
                         selectedMonth \in DOMAIN data.months)
       /\ UNCHANGED <<userTemplates, settings, selectedMonth, breakdown,
                      effectPending, file, alerted, reading, importLog>>

(***************************************************************************)
(* Undo snackbar: Undo, dismiss, expiry                                    *)
(***************************************************************************)
\* the ledger after running the closure of an undo entry: updateAmount(cat,
\* val) of the render that created it; it returns at once when that render's
\* breakdown.bucket was null (App.jsx:242-243)
UndoneData(prev, entry) ==
    IF entry.env.bucket = NullBucket THEN prev
    ELSE UpdatedData(prev, entry.env, entry.cat, Num(entry.val))

\* the timers started by running the closure: its updateAmount calls showUndo
UndoTimers(entry) ==
    IF entry.env.bucket = NullBucket THEN {}
    ELSE {NewTimer(ChangedLabel(entry.env.cur, Num(entry.val), entry.cat))}

\* the slot after the Undo button's handler: snackbar.undo?.(); setSnackbar(null)
SlotAfterUndo(entry) == << >>

\* the Undo button (App.jsx:539); it is rendered only while the slot is set,
\* a click without a slot changes nothing
undoClick ==
    /\ IF snackbar = << >>
       THEN /\ UserStep("undo", FALSE)
            /\ UNCHANGED <<data, snackbar, timers, lastMut>>
       ELSE /\ UserStep("undo", TRUE)
            /\ data' = UndoneData(data, snackbar[1])
            /\ timers' = timers \cup UndoTimers(snackbar[1])
            /\ snackbar' = SlotAfterUndo(snackbar[1])
            /\ lastMut' = [lastMut EXCEPT !.undone = TRUE]
    /\ UNCHANGED <<userTemplates, settings, selectedMonth, breakdown, effectPending,
                   file, alerted, reading, importLog>>

\* the snackbar's close button (App.jsx:540)
dismissSnackbar ==
    /\ snackbar # << >>
    /\ UserStep("dismiss", TRUE)
    /\ snackbar' = << >>
    /\ UNCHANGED <<data, userTemplates, settings, selectedMonth, breakdown, timers,
                   effectPending, file, alerted, reading, importLog, lastMut>>

\* the slot after the callbacks of the timers `due` have run (App.jsx:158)
SlotAfterTimers(slot, due) ==
    IF \E t \in due : TimerClears(slot, t.label) THEN << >> ELSE slot

\* time advances by TickMs; the timers that are due run their callbacks
\* (time is followed only while user actions remain)
Tick ==
    LET aged == {[t EXCEPT !.rem = t.rem - TickMs] : t \in timers}
        due == {t \in aged : t.rem <= 0}
    IN /\ ~effectPending
       /\ ops < MaxOps
       /\ timers # {}
       /\ timers' = aged \ due
       /\ snackbar' = SlotAfterTimers(snackbar, due)
       /\ lastMut' = [lastMut EXCEPT !.age = IF lastMut.age >= UNDO_MS THEN lastMut.age
                                             ELSE lastMut.age + TickMs]
       /\ act' = Step("tick", due # {})
       /\ UNCHANGED <<data, userTemplates, settings, selectedMonth, breakdown,
                      effectPending, file, alerted, reading, importLog, ops>>
       /\ UNCHANGED fyVars


(***************************************************************************)
(* Backup download and import                                              *)
(***************************************************************************)
\* downloadBackup (App.jsx:329-338)
downloadBackup ==
    /\ UserStep("downloadBackup", TRUE)
    /\ file' = [serializeBackup(data, userTemplates, settings) EXCEPT
                    !.payload = [data |-> data, templates |-> userTemplates,
                                 settings |-> settings]]
    /\ UNCHANGED <<data, userTemplates, settings, selectedMonth, breakdown, snackbar,
                   timers, effectPending, alerted, reading, importLog, lastMut>>

\* an entry of importLog: an import of f was requested, or completed
ImportEvent(ev, f) == [ev |-> ev, f |-> f]

\* the files the user can pick in the file input
ImportFiles == ForeignFiles \cup (IF file.kind = "none" THEN {} ELSE {file})

\* importBackup(file) up to `await file.text()` (App.jsx:340-342)
importBackup(f) ==
    /\ f \in ImportFiles
    /\ f \notin reading
    /\ UserStep("importBackup", TRUE)
    /\ reading' = reading \cup {f}
    /\ importLog' = Append(importLog, ImportEvent("request", f))
    /\ UNCHANGED <<data, userTemplates, settings, selectedMonth, breakdown, snackbar,
                   timers, effectPending, file, alerted, lastMut>>

\* an import completed after the import of f was requested
Overtaken(f) ==
    \E i, j \in 1..Len(importLog) :
        /\ i < j
        /\ importLog[i] = ImportEvent("request", f)
        /\ \A k \in (i + 1)..Len(importLog) : importLog[k] # ImportEvent("request", f)
        /\ importLog[j].ev = "done"

\* mutant of Restored: an import that was overtaken by another is discarded
RestoredUnlessOvertaken(f, field, current) ==
    IF ImportSucceeds(f) /\ FieldTruthy(field) /\ ~Overtaken(f) THEN field.val ELSE current

\* mutant of Restored: the store is replaced whenever the key is present
RestoredIfPresent(f, field, current) ==
    IF ImportSucceeds(f) /\ FieldPresent(field) THEN field.val ELSE current

\* the store after `if (json.key) setKey(json.key)` (App.jsx:344-346)
Restored(f, field, current) ==
    IF ImportSucceeds(f) /\ FieldTruthy(field) THEN field.val ELSE current

\* the rest of importBackup once the text of the file is read (App.jsx:343-349)
importBackupDone(f) ==
    /\ ~effectPending
    /\ f \in reading
    /\ reading' = reading \ {f}
    /\ importLog' = Append(importLog, ImportEvent("done", f))
    /\ data' = Restored(f, f.data, data)
    /\ userTemplates' = Restored(f, f.templates, userTemplates)
    /\ settings' = Restored(f, f.settings, settings)
    /\ alerted' = ~ImportSucceeds(f)
    /\ effectPending' = (ImportSucceeds(f) /\ FieldTruthy(f.templates))
    /\ act' = [Step("importDone", ImportSucceeds(f)) EXCEPT !.restored = (f = file)]
    /\ lastMut' = [lastMut EXCEPT !.intact = lastMut.intact /\ data' = data]
    /\ UNCHANGED <<selectedMonth, breakdown, snackbar, timers, file, ops>>
    /\ UNCHANGED fyVars

(***************************************************************************)
(* Resets and settings                                                     *)
(***************************************************************************)
\* mutant of resetData: the ledger is replaced without asking
resetDataUnasked(confirmed) ==
    /\ UserStep("resetData", confirmed)
    /\ data' = createInitialData(TEMPLATES(userTemplates))
    /\ lastMut' = [lastMut EXCEPT !.intact = lastMut.intact /\ data' = data]
    /\ UNCHANGED <<userTemplates, settings, selectedMonth, breakdown, snackbar, timers,
                   effectPending, file, alerted, reading, importLog>>

\* resetData (App.jsx:353-356); `confirmed` is the answer to confirm()
resetData(confirmed) ==
    /\ UserStep("resetData", confirmed)
    /\ data' = IF confirmed THEN createInitialData(TEMPLATES(userTemplates)) ELSE data
    /\ lastMut' = [lastMut EXCEPT !.intact = lastMut.intact /\ data' = data]
    /\ UNCHANGED <<userTemplates, settings, selectedMonth, breakdown, snackbar, timers,
                   effectPending, file, alerted, reading, importLog>>

\* resetTemplates (App.jsx:357-360)
resetTemplates(confirmed) ==
    /\ UserStep("resetTemplates", confirmed)
    /\ userTemplates' = IF confirmed THEN NoTemplates ELSE userTemplates
    /\ effectPending' = confirmed
    /\ UNCHANGED <<data, settings, selectedMonth, breakdown, snackbar, timers,
                   file, alerted, reading, importLog, lastMut>>

\* the controls of the settings modal (App.jsx:555-582)
setCurrency(c) ==
    /\ c # settings.currency
    /\ UserStep("setCurrency", TRUE)
    /\ settings' = [settings EXCEPT !.currency = c]
    /\ UNCHANGED <<data, userTemplates, selectedMonth, breakdown, snackbar, timers,
                   effectPending, file, alerted, reading, importLog, lastMut>>

setFyStartMonth(n) ==
    /\ n # settings.fyStartMonth
    /\ UserStep("setFyStartMonth", TRUE)
    /\ settings' = [settings EXCEPT !.fyStartMonth = n]
    /\ UNCHANGED <<data, userTemplates, selectedMonth, breakdown, snackbar, timers,
                   effectPending, file, alerted, reading, importLog, lastMut>>

(***************************************************************************)
(* The dashboard                                                           *)
(***************************************************************************)
ShiftMonthStep == \E delta \in {-1, 1} : shiftMonth(delta)
SelectMonthStep == \E m \in DOMAIN data.months : selectMonth(m)
AddItemStep ==
    \E kind \in Buckets :
        \E form \in AddForms(Range(TEMPLATES(userTemplates)[kind]) \cap FocusCats) :
            addItem(kind, form.newCat, form.newOther, form.newAmt, form.remember)
OpenBreakdownStep == \E title \in Titles : openBreakdown(title)
EditSaveStep == \E cat \in breakdown.items, editValue \in EditInputs : editSave(cat, editValue)
DeleteConfirmStep == \E cat \in breakdown.items : deleteConfirm(cat)
ImportBackupStep == \E f \in ImportFiles : importBackup(f)
ImportBackupDoneStep == \E f \in reading : importBackupDone(f)
ResetDataStep == \E confirmed \in BOOLEAN : resetData(confirmed)
ResetTemplatesStep == \E confirmed \in BOOLEAN : resetTemplates(confirmed)
SetCurrencyStep == \E c \in CurrencyInputs : setCurrency(c)
SetFyStartMonthStep == \E n \in FyStartInputs : setFyStartMonth(n)

Next ==
    \/ ShiftMonthStep
    \/ SelectMonthStep
    \/ ensureSelectedMonth
    \/ AddItemStep
    \/ OpenBreakdownStep
    \/ closeBreakdown
    \/ EditSaveStep
    \/ DeleteConfirmStep
    \/ undoClick
    \/ dismissSnackbar
    \/ Tick
    \/ downloadBackup
    \/ ImportBackupStep
    \/ ImportBackupDoneStep
    \/ ResetDataStep
    \/ ResetTemplatesStep
    \/ SetCurrencyStep
    \/ SetFyStartMonthStep

Spec == Init /\ [][Next]_vars


(***************************************************************************)
(* Fiscal-year window                                                      *)
(***************************************************************************)
\* mutant of fiscalYearKeysFor: the window always starts in the reference
\* month's calendar year
fiscalYearKeysSameYear(monthKey, fyStartMonth) ==
    [i \in 1..12 |-> DateKey(monthKey[1], (fyStartMonth - 1) + (i - 1))]

\* fiscalYearKeysFor(monthKey) with settings.fyStartMonth (App.jsx:104-114)
fiscalYearKeysFor(monthKey, fyStartMonth) ==
    LET y == monthKey[1]
        m == monthKey[2]
        startMonth == IF fyStartMonth = 0 THEN 1 ELSE fyStartMonth
        startYear == IF m >= startMonth THEN y ELSE y - 1
    IN [i \in 1..12 |-> DateKey(startYear, (startMonth - 1) + (i - 1))]

FyRefs == {<<y, m>> : y \in 2023..(2023 + FyYears), m \in 1..12}

InitFY ==
    /\ userTemplates = NoTemplates
    /\ settings = DefaultSettings
    /\ data = createInitialData(TEMPLATES(NoTemplates))
    /\ selectedMonth = NowKey
    /\ breakdown = ClosedBreakdown
    /\ snackbar = << >>
    /\ timers = {}
    /\ effectPending = FALSE
    /\ file = NoFile
    /\ alerted = FALSE
    /\ reading = {}
    /\ importLog = << >>
    /\ ops = 0
    /\ act = Step("init", TRUE)
    /\ lastMut = NoMut
    /\ fyRef \in FyRefs
    /\ fyStart \in 1..12
    /\ fyKeys = << >>
    /\ stored = NothingStored /\ crashed = FALSE

\* the Annual view or a year export asks for the window of a month
computeFiscalYear ==
    /\ fyKeys = << >>
    /\ fyKeys' = fiscalYearKeysFor(fyRef, fyStart)
    /\ UNCHANGED <<fyRef, fyStart, stored, crashed>>
    /\ UNCHANGED <<data, userTemplates, settings, selectedMonth, breakdown, snackbar,
                   timers, effectPending, file, alerted, ops, act, lastMut, reading, importLog>>

NextFY == computeFiscalYear

SpecFY == InitFY /\ [][NextFY]_vars

(***************************************************************************)
(* Start-up from persisted state                                           *)
(***************************************************************************)
\* before the component is rendered: localStorage holds three blobs
InitStart ==
    /\ stored \in [templates : Blobs(Templates1, NoTemplates),
                   settings : Blobs(Settings1, DefaultSettings),
                   data : Blobs(Ledger1, EmptyLedger)]
    /\ crashed = FALSE
    /\ userTemplates = NoTemplates
    /\ settings = DefaultSettings
    /\ data = EmptyLedger
    /\ selectedMonth = NowKey
    /\ breakdown = ClosedBreakdown
    /\ snackbar = << >>
    /\ timers = {}
    /\ effectPending = FALSE
    /\ file = NoFile
    /\ alerted = FALSE
    /\ reading = {}
    /\ importLog = << >>
    /\ ops = 0
    /\ act = Step("stored", TRUE)
    /\ lastMut = NoMut
    /\ fyRef = NowKey /\ fyStart = 1 /\ fyKeys = << >>

\* the first render of BudgetDashboard (App.jsx:47-79): the initialisers of
\* the three stores, TEMPLATES, monthsOrder and selectedMonth.  Reading
\* userTemplates.income of null, spreading the undefined income of {}
\* (App.jsx:55-60) and Object.keys of an undefined data.months (App.jsx:78)
\* throw a TypeError that nothing catches.
BudgetDashboard ==
    LET t == LoadIfRaw(stored.templates, NoTemplates)
        st == LoadOrDefault(stored.settings, DefaultSettings)
        templatesThrow == t.tag # "value"
        d == LoadIfRaw(stored.data, createInitialData(TEMPLATES(t.val)))
        dataThrow == d.tag # "value"
        throws == templatesThrow \/ dataThrow
    IN /\ act.name = "stored"
       /\ act' = Step("mount", ~throws)
       /\ crashed' = throws
       /\ IF throws
          THEN UNCHANGED <<userTemplates, settings, data, selectedMonth, effectPending>>
          ELSE /\ userTemplates' = t.val
               /\ settings' = (IF st.tag = "empty" THEN EmptyObjectSettings ELSE st.val)
               /\ data' = d.val
               /\ selectedMonth' = SortKeys(DOMAIN d.val.months)[Cardinality(DOMAIN d.val.months)]
               /\ effectPending' = TRUE
       /\ UNCHANGED <<breakdown, snackbar, timers, file, alerted, reading, importLog, ops, lastMut,
                      stored, fyRef, fyStart, fyKeys>>

NextStart ==
    \/ BudgetDashboard
    \/ ensureSelectedMonth

SpecStart == InitStart /\ [][NextStart]_vars

(***************************************************************************)
(* The drill-down modal on a month that holds entries                      *)
(***************************************************************************)
\* month records reached by adds through the adder: saving Cash alone;
\* saving Cash and an investment entered under the custom name Cash (not
\* remembered); an expense and an investment
ModalRecords ==
    { [BaseMonth EXCEPT !.saving = Put(@, <<"Cash">>, 200)],
      [BaseMonth EXCEPT !.saving = Put(@, <<"Cash">>, 200),
                        !.investment = Put(@, <<"Cash">>, 300)],
      [BaseMonth EXCEPT !.expense = Put(@, <<"Mortgage">>, 100),
                        !.investment = Put(@, <<"Bitcoin">>, 300)] }

\* the chart cards whose breakdown can be edited
EditableTitles == {t \in Titles : mapTitleToBucket(t) # NullBucket}

\* the entries were added, their undo expired, and a chart card was clicked
InitModal ==
    /\ userTemplates = NoTemplates
    /\ settings = DefaultSettings
    /\ selectedMonth = NowKey
    /\ \E rec \in ModalRecords : data = [months |-> Put(<< >>, NowKey, rec)]
    /\ \E title \in EditableTitles :
          breakdown = [open |-> TRUE, bucket |-> mapTitleToBucket(title),
                       items |-> RowsFor(title)]
    /\ snackbar = << >>
    /\ timers = {}
    /\ effectPending = FALSE
    /\ file = NoFile
    /\ alerted = FALSE
    /\ reading = {}
    /\ importLog = << >>
    /\ ops = 0
    /\ act = Step("openBreakdown", TRUE)
    /\ lastMut = NoMut
    /\ fyRef = NowKey /\ fyStart = 1 /\ fyKeys = << >>
    /\ stored = NothingStored /\ crashed = FALSE

NextModal ==
    \/ EditSaveStep
    \/ DeleteConfirmStep
    \/ undoClick
    \/ dismissSnackbar
    \/ Tick

SpecModal == InitModal /\ [][NextModal]_vars


(***************************************************************************)
(* Properties                                                              *)
(***************************************************************************)
\* the step just taken changed an amount: an accepted add, an edit, a delete
Mutated == act.name \in {"addItem", "editSave", "deleteConfirm"} /\ act.ok

\* the months of the ledger earlier than k, and the nearest of them
EarlierMonths(k) == {j \in DOMAIN data.months : KeyLt(j, k)}
NearestEarlier(k) ==
    CHOOSE j \in EarlierMonths(k) : \A i \in EarlierMonths(k) : i = j \/ KeyLt(i, j)

AllZero(obj) == \A c \in DOMAIN obj : obj[c] = 0

\* C1: when the ensure-selected-month effect creates the record of the
\* selected month m2, the record's saving and investment values equal those
\* of the nearest earlier existing month m1 for every category of m1, every
\* income and expense category of the record is zero, and without an earlier
\* month the record is the zero-filled template.
C1_CarryForward ==
    (act.name = "ensure" /\ act.ok) =>
        LET rec == data.months[selectedMonth]
            templates == TEMPLATES(userTemplates)
        IN /\ AllZero(rec.income) /\ AllZero(rec.expense)
           /\ DOMAIN rec.income = Range(templates.income)
           /\ DOMAIN rec.expense = Range(templates.expense)
           /\ IF EarlierMonths(selectedMonth) = {}
              THEN rec = emptyMonth(templates)
              ELSE LET m1 == data.months[NearestEarlier(selectedMonth)]
                   IN \A b \in {"saving", "investment"} :
                        /\ \A c \in DOMAIN m1[b] :
                              c \in DOMAIN rec[b] /\ rec[b][c] = m1[b][c]
                        /\ \A c \in DOMAIN rec[b] \ DOMAIN m1[b] :
                              c \in Range(templates[b]) /\ rec[b][c] = 0

\* C1 witness: a record was created two months after the nearest earlier
\* month, which holds a saving balance and an expense.
C1_Witness ==
    /\ act.name = "ensure" /\ act.ok
    /\ EarlierMonths(selectedMonth) # {}
    /\ LET k1 == NearestEarlier(selectedMonth)
       IN /\ MonthIndex(selectedMonth) - MonthIndex(k1) = 2
          /\ ~AllZero(data.months[k1].saving)
          /\ ~AllZero(data.months[k1].expense)
          /\ ~AllZero(data.months[selectedMonth].saving)

\* C10: for every reference month and start month 1..12 the fiscal-year
\* window is 12 distinct, chronologically consecutive month keys beginning at
\* the start month, it contains the reference month, and it starts in the
\* reference month's year when its month number is >= the start month and in
\* the year before otherwise.
C10_FiscalYearWindow ==
    fyKeys # << >> =>
        /\ Len(fyKeys) = 12
        /\ \A i \in 1..12 : fyKeys[i][2] \in 1..12
        /\ \A i, j \in 1..12 : i # j => fyKeys[i] # fyKeys[j]
        /\ \A i \in 1..11 : MonthIndex(fyKeys[i + 1]) = MonthIndex(fyKeys[i]) + 1
        /\ fyKeys[1][2] = fyStart
        /\ fyKeys[1][1] = (IF fyRef[2] >= fyStart THEN fyRef[1] ELSE fyRef[1] - 1)
        /\ \E i \in 1..12 : fyKeys[i] = fyRef

\* C10 witness: start month 4 and reference 2024-02 give 2023-04 .. 2024-03.
C10_Witness ==
    /\ fyRef = <<2024, 2>> /\ fyStart = 4
    /\ fyKeys # << >>
    /\ fyKeys[1] = <<2023, 4>> /\ fyKeys[12] = <<2024, 3>>


\* the value of the category of the most recent mutation in the bucket it wrote
MutValue ==
    IF lastMut.month \in DOMAIN data.months
    THEN Get(data.months[lastMut.month][lastMut.target], lastMut.cat) ELSE 0

\* C2: an accepted add sets the category to its previous value plus the
\* amount, and clicking Undo on the pending undo of that add before it
\* expires restores the category to its previous value and the month's cash
\* flow to its value before the add.
C2_AddThenUndoRestores ==
    /\ (act.name = "addItem" /\ act.ok) =>
            MutValue = Get(lastMut.before[lastMut.target], lastMut.cat) + lastMut.amt.val
    /\ (act.name = "undo" /\ act.ok /\ lastMut.op = "add" /\ lastMut.intact
            /\ lastMut.age < UNDO_MS) =>
            /\ MutValue = Get(lastMut.before[lastMut.target], lastMut.cat)
            /\ cashFlow(data.months[lastMut.month]) = cashFlow(lastMut.before)

\* C3: the snackbar is a single slot that, when set, holds the undo of the
\* most recent mutation; and an Undo click after Undo was already clicked for
\* that mutation, or 5 time units or more after it, leaves the ledger as it is.
C3_SlotHoldsLastMutation ==
    snackbar # << >> =>
        /\ Len(snackbar) = 1
        /\ lastMut.op # "none" /\ ~lastMut.undone /\ lastMut.age < UNDO_MS
        /\ snackbar[1].cat = lastMut.cat
        /\ snackbar[1].val = lastMut.prevVal
        /\ snackbar[1].env.month = lastMut.month
        /\ snackbar[1].env.bucket = lastMut.view
C3_SingleUndoSlot ==
    /\ [](C3_SlotHoldsLastMutation)
    /\ [][(act'.name = "undo" /\ (lastMut.undone \/ lastMut.age >= UNDO_MS))
            => (data' = data /\ ~act'.ok)]_vars

\* C3 witness: Undo was clicked 5 time units after a mutation whose undo
\* would have changed the ledger, and found no slot.
C3_Witness ==
    /\ act.name = "undo" /\ ~act.ok
    /\ lastMut.op # "none" /\ lastMut.age >= UNDO_MS /\ ~lastMut.undone
    /\ lastMut.view # NullBucket
    /\ MutValue # lastMut.prevVal

\* C4: an add or an edit with a non-numeric amount or an empty category
\* changes neither the ledger nor the templates and registers no undo.
C4_InvalidInputIsNoOp ==
    [][(act'.name \in {"addItem", "editSave"} /\ ~act'.valid)
         => (data' = data /\ userTemplates' = userTemplates /\ snackbar' = snackbar)]_vars

\* C5: every category of the current template of a bucket has an entry in
\* every month record of the ledger.
C5_TemplateInEveryMonth ==
    \A m \in DOMAIN data.months : \A b \in Buckets :
        Range(TEMPLATES(userTemplates)[b]) \subseteq DOMAIN data.months[m][b]

\* C5 as amended: a month record created by the ensure-selected-month effect
\* or by a confirmed Reset Data has, when created, an entry for every category
\* of the current template of each bucket (earlier records are not
\* back-filled when a custom category is added later).
C5_TemplateInNewMonth ==
    /\ (act.name = "ensure" /\ act.ok) =>
            \A b \in Buckets :
                Range(TEMPLATES(userTemplates)[b]) \subseteq DOMAIN data.months[selectedMonth][b]
    /\ (act.name = "resetData" /\ act.ok) => C5_TemplateInEveryMonth

\* C5 witness: the effect created a record while an expense custom category
\* was registered, and an earlier record lacks that category.
C5_Witness ==
    /\ act.name = "ensure" /\ act.ok
    /\ userTemplates.expense # << >>
    /\ \E m \in DOMAIN data.months :
          ~(Range(userTemplates.expense) \subseteq DOMAIN data.months[m].expense)

\* C6: when an add or an edit targets a month without a record, the record
\* is first created as ensureMonth creates it, so apart from the category
\* written its saving and investment balances are those of the nearest
\* earlier existing month.
C6_CreatedAsEnsureMonth ==
    (Mutated /\ ~lastMut.existed /\ EarlierMonths(lastMut.month) # {}) =>
        LET rec == data.months[lastMut.month]
            m1 == data.months[NearestEarlier(lastMut.month)]
        IN \A b \in {"saving", "investment"} : \A c \in DOMAIN m1[b] :
              (b # lastMut.target \/ c # lastMut.cat) =>
                  (c \in DOMAIN rec[b] /\ rec[b][c] = m1[b][c])

NoDuplicates(q) == \A i, j \in 1..Len(q) : i # j => q[i] # q[j]

\* C7: a custom list never contains a duplicate or an empty name.
C7_CustomListsClean ==
    \A b \in Buckets : NoDuplicates(userTemplates[b]) /\ << >> \notin Range(userTemplates[b])

\* the file whose import this step completes
Imported == CHOOSE f \in reading : f \notin reading'

\* the stores an import step leaves, given the test that decides whether a
\* key of the payload replaces its store
ImportOutcome(Replaces(_)) ==
    LET f == Imported
        ok == f.kind = "object"
    IN /\ data' = (IF ok /\ Replaces(f.data) THEN f.data.val ELSE data)
       /\ userTemplates' = (IF ok /\ Replaces(f.templates) THEN f.templates.val
                            ELSE userTemplates)
       /\ settings' = (IF ok /\ Replaces(f.settings) THEN f.settings.val ELSE settings)
       /\ (~Parses(f) => alerted')
       /\ (alerted' => (data' = data /\ userTemplates' = userTemplates
                        /\ settings' = settings))

\* C8: an import replaces a store by the payload's value exactly when the
\* file parsed and the payload contains the store's key, and leaves it
\* untouched otherwise; a parse failure raises the failure notice.
C8_ImportReplacesPresentKeys ==
    [][act'.name = "importDone" => ImportOutcome(FieldPresent)]_vars

\* C8 as amended: an import replaces a store by the payload's value exactly
\* when the file parsed to an object whose value under the store's key is
\* truthy, and leaves it untouched otherwise (key missing, or value null);
\* a parse failure raises the failure notice with all stores unchanged.
C8_ImportReplacesTruthyKeys ==
    [][act'.name = "importDone" => ImportOutcome(FieldTruthy)]_vars

\* C8 witness: a partial backup (settings only, templates null) was imported
\* and replaced the settings alone.
C8_Witness ==
    /\ act.name = "importDone" /\ act.ok
    /\ settings = Settings1
    /\ userTemplates = NoTemplates
    /\ data = createInitialData(TEMPLATES(NoTemplates))

\* C9: after the backup made from (L, T, S) is imported and the effects have
\* settled, the three stores equal L, T and S.
C9_RoundTrip ==
    (act.restored /\ ~effectPending) =>
        /\ data = file.payload.data
        /\ userTemplates = file.payload.templates
        /\ settings = file.payload.settings

\* C9 as amended: the import of the backup made from (L, T, S) leaves the
\* three stores equal to L, T and S; the ensure-selected-month effect that
\* follows keeps T and S and every record of L, and adds nothing but a record
\* for the selected month when L has none.
C9_RoundTripUpToSelectedMonth ==
    act.restored =>
        /\ userTemplates = file.payload.templates
        /\ settings = file.payload.settings
        /\ (act.name = "importDone" => data = file.payload.data)
        /\ \A m \in DOMAIN file.payload.data.months :
              m \in DOMAIN data.months /\ data.months[m] = file.payload.data.months[m]
        /\ DOMAIN data.months \subseteq DOMAIN file.payload.data.months \cup {selectedMonth}

\* C9 witness: the backup was imported after an entry had been added to the
\* ledger, and the ledger and templates are those of the backup again.
C9_Witness ==
    /\ act.restored /\ act.name = "importDone"
    /\ lastMut.op # "none" /\ ~lastMut.intact
    /\ data = file.payload.data
    /\ userTemplates = file.payload.templates


\* the value of the category of the most recent mutation as the view it was
\* made through computes it (the sum of both buckets in the combined view)
RowValue ==
    IF lastMut.month \in DOMAIN data.months
    THEN OldValue(data.months[lastMut.month], lastMut.view, lastMut.cat) ELSE 0

\* C11: a delete leaves the category at zero, also when it repeats a delete
\* of the same category, and the undo registered by the second of two
\* successive deletes restores the category to zero.
C11_DeleteTwice ==
    /\ (act.name = "deleteConfirm") => RowValue = 0
    /\ (act.name = "undo" /\ act.ok /\ lastMut.op = "delete" /\ lastMut.repeat
            /\ lastMut.intact) => RowValue = 0

\* the bucket the combined view must write: the one that already holds the
\* key (saving first), else saving if its template lists the name, else
\* investment
OwnerOf(rec, cat) ==
    IF cat \in DOMAIN rec.saving THEN "saving"
    ELSE IF cat \in DOMAIN rec.investment THEN "investment"
    ELSE IF \E i \in 1..Len(TEMPLATES(userTemplates).saving) :
                TEMPLATES(userTemplates).saving[i] = cat THEN "saving"
    ELSE "investment"

\* C14: an edit or delete through the combined view writes the bucket that
\* owns the category, and its undo restores the saving and the investment
\* value of the category, and the net worth of the month, to their values
\* before the mutation.
C14_CombinedViewUndo ==
    LET rec == data.months[lastMut.month]
        cat == lastMut.cat
        combined == lastMut.view = "saving-invest" /\ lastMut.op \in {"edit", "delete"}
                        /\ lastMut.intact
    IN /\ (combined /\ act.name \in {"editSave", "deleteConfirm"}) =>
              LET k == OwnerOf(lastMut.before, cat)
                  other == IF k = "saving" THEN "investment" ELSE "saving"
              IN /\ rec[k][cat] = OrZero(lastMut.amt)
                 /\ rec[other] = lastMut.before[other]
       /\ (combined /\ act.name = "undo" /\ act.ok) =>
              /\ Get(rec.saving, cat) = Get(lastMut.before.saving, cat)
              /\ Get(rec.investment, cat) = Get(lastMut.before.investment, cat)
              /\ netWorthValue(rec) = netWorthValue(lastMut.before)

\* what a reset step itself does to the three stores
ResetStep ==
    /\ (act'.name \in {"resetData", "resetTemplates"} /\ ~act'.ok) =>
            (data' = data /\ userTemplates' = userTemplates /\ settings' = settings)
    /\ (act'.name = "resetData" /\ act'.ok) =>
            /\ DOMAIN data'.months = {NowKey}
            /\ \A b \in Buckets :
                  /\ DOMAIN data'.months[NowKey][b] = Range(TEMPLATES(userTemplates)[b])
                  /\ AllZero(data'.months[NowKey][b])
            /\ userTemplates' = userTemplates /\ settings' = settings
    /\ (act'.name = "resetTemplates" /\ act'.ok) =>
            /\ \A b \in Buckets : userTemplates'[b] = << >>
            /\ TEMPLATES(userTemplates') = BASE_TEMPLATES
            /\ data' = data /\ settings' = settings

\* the effect that runs after a confirmed Reset Templates
AfterResetTemplates == act.name = "resetTemplates" /\ act.ok /\ act'.name = "ensure"

Malformed(blob) == blob.kind \in {"garbage", "null", "empty"}

\* C13: at start-up no blob makes the first render fail, and a store whose
\* blob fails to parse or parses to null or to {} is initialised to its
\* default.
C13_StartupFallsBack ==
    act.name = "mount" =>
        /\ ~crashed
        /\ Malformed(stored.templates) => userTemplates = NoTemplates
        /\ Malformed(stored.settings) => settings = DefaultSettings
        /\ Malformed(stored.data) => data = createInitialData(TEMPLATES(userTemplates))

\* C15: the undo slot is emptied only by Undo, by the close button, or by
\* a timer once the slot's own mutation is 5 time units old: the timer of an
\* earlier mutation never clears the pending undo of a later one.
C15_TimerClearsOwnUndoOnly ==
    [][(snackbar # << >> /\ snackbar' = << >>) =>
            \/ act'.name \in {"undo", "dismiss"}
            \/ (act'.name = "tick" /\ lastMut.age + TickMs >= UNDO_MS)]_vars

\* C17: once the effects have settled, the selected month has a record in
\* the ledger.
C17_SelectedMonthHasRecord ==
    ~effectPending => selectedMonth \in DOMAIN data.months

\* positions in importLog of the completions, and of the request that a
\* completion at position d answers
DonePositions == {i \in 1..Len(importLog) : importLog[i].ev = "done"}
RequestOf(d) ==
    CHOOSE r \in 1..d : /\ importLog[r] = ImportEvent("request", importLog[d].f)
                         /\ \A k \in (r + 1)..(d - 1) :
                               importLog[k] # ImportEvent("request", importLog[d].f)
LastDone == CHOOSE d \in DonePositions : \A e \in DonePositions : e <= d
DoneBefore(d) == CHOOSE c \in DonePositions : c < d /\ \A e \in DonePositions : e < d => e <= c

\* the step just taken completed the second of two imports that were in
\* flight together
RaceOver ==
    /\ act.name = "importDone"
    /\ Cardinality(DonePositions) >= 2
    /\ RequestOf(LastDone) < DoneBefore(LastDone)

StoreOf(key) ==
    IF key = "data" THEN data ELSE IF key = "templates" THEN userTemplates ELSE settings

\* after a race, every store whose key passes `InBoth` in the two payloads
\* holds the value of the import that completed last, and every store that
\* import replaces holds its value in the same state
LastWriteWins(InBoth(_)) ==
    RaceOver =>
        LET first == importLog[DoneBefore(LastDone)].f
            last == importLog[LastDone].f
        IN \A key \in {"data", "templates", "settings"} :
              /\ (first.kind = "object" /\ last.kind = "object"
                    /\ InBoth(first[key]) /\ InBoth(last[key]))
                      => StoreOf(key) = last[key].val
              /\ (last.kind = "object" /\ FieldTruthy(last[key]))
                      => StoreOf(key) = last[key].val

\* C16: when two imports race, each store whose key is present in both
\* payloads holds the value of the import whose read completed last,
\* whatever the order of the requests, and the replacements of an import are
\* applied in one step.
C16_LastWriteWins == LastWriteWins(FieldPresent)

\* C16 as amended: as C16 for each store whose key holds a truthy value in
\* both payloads (a key that is present with the value null replaces
\* nothing, so the store keeps the value of the other import).
C16_LastTruthyWriteWins == LastWriteWins(FieldTruthy)

\* C16 witness: the import requested first completed last and its ledger
\* replaced the ledger of the import requested second.
C16_Witness ==
    /\ RaceOver
    /\ RequestOf(LastDone) < RequestOf(DoneBefore(LastDone))
    /\ LET first == importLog[DoneBefore(LastDone)].f
           last == importLog[LastDone].f
       IN /\ first.kind = "object" /\ last.kind = "object"
          /\ FieldTruthy(first.data) /\ FieldTruthy(last.data)
          /\ first.data.val # last.data.val
          /\ data = last.data.val

====
